---- MODULE Spec2Model ----
(***************************************************************************)
(* A model of pyliger's preprocessing pipeline                             *)
(* (src/pyliger/preprocessing.py): createLiger, normalize, selectGenes,    *)
(* scaleNotCenter and removeMissingObs acting on a list of AnnData         *)
(* objects (genes x cells: obs = genes, var = cells).                      *)
(*                                                                         *)
(* An AnnData object is a record                                           *)
(*   sample_name  uns['sample_name']                                       *)
(*   sparse       isspmatrix(X)                                            *)
(*   named        obs_keys() and var_keys() are non-empty                  *)
(*   gene_name    obs['gene_name'], one identifier per row of X            *)
(*   barcodes     var['barcodes'], one identifier per column of X          *)
(*   X            the raw counts, a sequence of rows (one per gene), each  *)
(*                a sequence of naturals (one per cell)                    *)
(*   layers       a function from the layer names present ("norm_data",    *)
(*                "scale_data") to matrices of numbers (see Num below)     *)
(***************************************************************************)
EXTENDS Integers, Sequences, FiniteSets, TLC

VARIABLES
    adata_list,  \* the list of AnnData objects (the caller's list, shared with the liger object)
    pc,          \* how far the caller has come: "start", "failed", "created", "normalized", "selected", "scaled"
    var_genes,   \* liger_object.var_genes, a set of gene identifiers
    cell_data,   \* liger_object.cell_data, a sequence of rows
    err,         \* the exception the last call raised, or "none"
    out,         \* what the last call printed
    warn,        \* the warnings the last call emitted
    call,        \* the last call and its arguments
    before       \* the list as it was when the last call was made

vars == <<adata_list, pc, var_genes, cell_data, err, out, warn, call, before>>

(***************************************************************************)
(* Bounds of the model.                                                    *)
(***************************************************************************)
MaxDatasets == 2
MaxGenes == 2
MaxCells == 2
MaxCount == 1
MaxEntries == 4
WideCells == 26
SelDatasets == 2
SelCount == 4
FP == 10000

(***************************************************************************)
(* Program constants.                                                      *)
(***************************************************************************)
ReportLimit == 25

(***************************************************************************)
(* Sequences, masks and matrices.                                          *)
(***************************************************************************)
Range(s) == {s[i] : i \in DOMAIN s}

RECURSIVE SumSeq(_)
SumSeq(s) == IF s = <<>> THEN 0 ELSE Head(s) + SumSeq(Tail(s))

\* s[mask]: the entries of s at the positions where mask is TRUE, in order
RECURSIVE Pick(_, _)
Pick(s, mask) ==
    IF s = <<>> THEN <<>>
    ELSE (IF Head(mask) THEN <<Head(s)>> ELSE <<>>) \o Pick(Tail(s), Tail(mask))

Not(mask) == [i \in DOMAIN mask |-> ~mask[i]]

Count(mask) == Cardinality({i \in DOMAIN mask : mask[i]})

\* the number of rows (shape[0]) and columns (shape[1]) of an AnnData object
NGenes(a) == Len(a.gene_name)
NCells(a) == Len(a.barcodes)

\* M[:, mask] and M[mask, :] of a matrix held as a sequence of rows
PickCols(M, mask) == [g \in DOMAIN M |-> Pick(M[g], mask)]
PickRows(M, mask) == Pick(M, mask)

(***************************************************************************)
(* Numbers of the derived layers.  A Num is [s, n, d] and stands for       *)
(*   s * (n / d)         in the norm_data layer                            *)
(*   s * sqrt(n / d)     in the scale_data layer (root-mean-square scaled) *)
(* with s the sign in {-1, 0, 1}; d = 0 marks a non-finite value: NaN when *)
(* n = 0 (0/0) and +-Inf when n > 0 (x/0).                                 *)
(***************************************************************************)
RECURSIVE GCD(_, _)
GCD(a, b) == IF b = 0 THEN a ELSE GCD(b, a % b)

NaN == [s |-> 0, n |-> 0, d |-> 0]
Inf == [s |-> 1, n |-> 1, d |-> 0]
Zero == [s |-> 0, n |-> 0, d |-> 1]

\* n / d for naturals n, d as numpy divides: x/0 is Inf, 0/0 is NaN
Quot(n, d) ==
    IF d = 0 THEN (IF n = 0 THEN NaN ELSE Inf)
    ELSE IF n = 0 THEN Zero
    ELSE LET g == GCD(n, d) IN [s |-> 1, n |-> n \div g, d |-> d \div g]

IsFinite(v) == v.d # 0
IsZero(v) == v.d # 0 /\ v.n = 0

\* np.sum(row) == 0 for a row of non-negative Nums: NaN and Inf compare unequal to 0,
\* and a sum of non-negative finite values is 0 exactly when each of them is
NumSumIsZero(row) == \A i \in DOMAIN row : IsZero(row[i]) \/ (row[i].d # 0 /\ row[i].s = 0)

\* AnnData subsetting adata[:, mask].copy() and adata[mask, :].copy(): X, every
\* layer and the identifier vector of the axis are cut together
SubsetCells(a, mask) ==
    [a EXCEPT !.barcodes = Pick(a.barcodes, mask),
              !.X = PickCols(a.X, mask),
              !.layers = [k \in DOMAIN a.layers |-> PickCols(a.layers[k], mask)]]

SubsetGenes(a, mask) ==
    [a EXCEPT !.gene_name = Pick(a.gene_name, mask),
              !.X = PickRows(a.X, mask),
              !.layers = [k \in DOMAIN a.layers |-> PickRows(a.layers[k], mask)]]

\* np.sum(X, axis=0) and np.sum(X, axis=1) of the raw counts
ColSums(a) == [c \in 1..NCells(a) |-> SumSeq([g \in 1..NGenes(a) |-> a.X[g][c]])]
RowSums(a) == [g \in 1..NGenes(a) |-> SumSeq(a.X[g])]

(***************************************************************************)
(* What a call prints.                                                     *)
(***************************************************************************)
CountLine(k, what, where) == [kind |-> "count", n |-> k, what |-> what, where |-> where, ids |-> <<>>]
IdsLine(ids) == [kind |-> "ids", n |-> Len(ids), what |-> "", where |-> "", ids |-> ids]

(***************************************************************************)
(* removeMissingObs (lines 523-572).                                       *)
(***************************************************************************)
\* line 545: the word used in the report
RemovedWord(slot_use, use_cols) ==
    IF slot_use \in {"raw_data", "norm_data"} /\ use_cols THEN "cells" ELSE "genes"

\* lines 555-558: which entries of the target axis have sum 0 in the chosen slot
MissingMask(a, slot_use, use_cols) ==
    IF slot_use = "raw_data"
    THEN IF use_cols
         THEN [c \in 1..NCells(a) |-> ColSums(a)[c] = 0]
         ELSE [g \in 1..NGenes(a) |-> RowSums(a)[g] = 0]
    ELSE LET M == a.layers[slot_use]
         IN  IF use_cols
             THEN [c \in 1..NCells(a) |-> NumSumIsZero([g \in 1..NGenes(a) |-> M[g][c]])]
             ELSE [g \in 1..NGenes(a) |-> NumSumIsZero(M[g])]

\* the report without the cut: the subset of line 565 is not stored back
RemoveColsReportOnly(a, missing, line) == [a |-> a, err |-> "none", out |-> <<line>>]

\* lines 561-565: the report and the cut when cells (columns) are removed.  The
\* identifiers printed are obs['gene_name'][missing]: a mask over the cells applied to
\* the gene identifiers, an IndexError unless there are as many genes as cells
RemoveCols(a, missing, line) ==
    IF Count(missing) < ReportLimit /\ ~a.named
    THEN [a |-> a, err |-> "KeyError", out |-> <<line>>]
    ELSE IF Count(missing) < ReportLimit /\ NGenes(a) # Len(missing)
    THEN [a |-> a, err |-> "IndexError", out |-> <<line>>]
    ELSE [a |-> SubsetCells(a, Not(missing)), err |-> "none",
          out |-> IF Count(missing) < ReportLimit
                  THEN <<line, IdsLine(Pick(a.gene_name, missing))>>
                  ELSE <<line>>]

\* lines 566-570: the report and the cut when genes (rows) are removed.  The
\* identifiers printed are var['barcode'][missing]: the column is called 'barcodes'
\* everywhere else (lines 130, 266, 285, 300), so the lookup is a KeyError
RemoveRows(a, missing, line) ==
    IF Count(missing) < ReportLimit
    THEN [a |-> a, err |-> "KeyError", out |-> <<line>>]
    ELSE [a |-> SubsetGenes(a, Not(missing)), err |-> "none", out |-> <<line>>]

\* lines 549-570: one pass of the loop body, on dataset a
removeMissingStep(a, slot_use, use_cols) ==
    IF slot_use \notin {"raw_data", "scale_data"}
    THEN [a |-> a, err |-> "UnboundLocalError", out |-> <<>>]
    ELSE IF slot_use = "scale_data" /\ "scale_data" \notin DOMAIN a.layers
    THEN [a |-> a, err |-> "KeyError", out |-> <<>>]
    ELSE LET missing == MissingMask(a, slot_use, use_cols)
             line == CountLine(Count(missing), RemovedWord(slot_use, use_cols), a.sample_name)
         IN  IF Count(missing) = 0 THEN [a |-> a, err |-> "none", out |-> <<>>]
             ELSE IF use_cols THEN RemoveCols(a, missing, line)
             ELSE RemoveRows(a, missing, line)

\* lines 548-572: the loop over the datasets from index i on; an exception leaves
\* the datasets before i cut and the others as they were
RECURSIVE removeMissingFrom(_, _, _, _, _)
removeMissingNext(list, i, slot_use, use_cols, printed, r) ==
    IF r.err # "none"
    THEN [list |-> list, err |-> r.err, out |-> printed \o r.out]
    ELSE removeMissingFrom([list EXCEPT ![i] = r.a], i + 1, slot_use, use_cols, printed \o r.out)

removeMissingFrom(list, i, slot_use, use_cols, printed) ==
    IF i > Len(list) THEN [list |-> list, err |-> "none", out |-> printed]
    ELSE removeMissingNext(list, i, slot_use, use_cols, printed,
                           removeMissingStep(list[i], slot_use, use_cols))

removeMissingObs(list, slot_use, use_cols) ==
    removeMissingFrom(list, 1, slot_use, use_cols, <<>>)

(***************************************************************************)
(* createLiger (lines 221-306).                                            *)
(***************************************************************************)
\* line 266: a cell name repeated within the dataset, and more than one gene row
RepeatedBarcode(a) ==
    Len(a.barcodes) - Cardinality(Range(a.barcodes)) > 0 /\ NGenes(a) > 1

\* lines 257-269: the make_sparse loop from index i on
RECURSIVE makeSparseFrom(_, _)
makeSparseFrom(list, i) ==
    IF i > Len(list) THEN [list |-> list, err |-> "none", out |-> <<>>]
    ELSE IF list[i].sparse
    THEN IF ~list[i].named THEN [list |-> list, err |-> "ValueError: names", out |-> <<>>]
         ELSE IF RepeatedBarcode(list[i])
         THEN [list |-> list, err |-> "ValueError: repeated", out |-> <<>>]
         ELSE makeSparseFrom(list, i + 1)
    ELSE makeSparseFrom([list EXCEPT ![i].sparse = TRUE], i + 1)

\* the identifiers of s without repetition, in order of first appearance
RECURSIVE Unique(_)
Unique(s) ==
    IF s = <<>> THEN <<>>
    ELSE LET u == Unique(SubSeq(s, 1, Len(s) - 1))
         IN  IF s[Len(s)] \in Range(u) THEN u ELSE Append(u, s[Len(s)])

RECURSIVE Concat(_)
Concat(ss) == IF ss = <<>> THEN <<>> ELSE Head(ss) \o Concat(Tail(ss))

\* the first row of dataset a named g, as counts per cell; zeros when a has no such gene
GeneRow(a, g) ==
    IF g \in Range(a.gene_name)
    THEN a.X[CHOOSE i \in DOMAIN a.gene_name :
                 a.gene_name[i] = g /\ \A j \in 1..(i - 1) : a.gene_name[j] # g]
    ELSE [c \in 1..NCells(a) |-> 0]

\* utilities.MergeSparseDataAll: one dataset over the union of the genes and the
\* concatenation of the cells, zero where a dataset lacks the gene
MergeSparseDataAll(list) ==
    LET genes == Unique(Concat([i \in DOMAIN list |-> list[i].gene_name]))
    IN  [sample_name |-> "merged", sparse |-> TRUE, named |-> TRUE,
         gene_name |-> genes,
         barcodes |-> Concat([i \in DOMAIN list |-> list[i].barcodes]),
         X |-> [g \in DOMAIN genes |-> Concat([i \in DOMAIN list |-> GeneRow(list[i], genes[g])])],
         layers |-> <<>>]

\* lines 274-282: genes with no count in any cell of the merged data are reported and cut
dropMissingGenes(merged) ==
    LET missing_genes == [g \in 1..NGenes(merged) |-> RowSums(merged)[g] = 0]
    IN  IF Count(missing_genes) > 0
        THEN [a |-> SubsetGenes(merged, Not(missing_genes)),
              out |-> <<CountLine(Count(missing_genes), "genes", "merged")>>
                      \o (IF Count(missing_genes) < ReportLimit
                          THEN <<IdsLine(Pick(merged.gene_name, missing_genes))>> ELSE <<>>)]
        ELSE [a |-> merged, out |-> <<>>]

\* line 285: merged_data.var['barcodes'] == adata_list[i].var['barcodes'] compares two
\* pandas Series element by element; Series of different lengths cannot be compared
\* (ValueError: Can only compare identically-labeled Series objects)
SameLength(merged, a) == Len(merged.barcodes) = Len(a.barcodes)

BarcodeMask(merged, a) == [c \in 1..NCells(merged) |-> merged.barcodes[c] = a.barcodes[c]]

\* lines 284-285: the re-split of the merged data from index i on
RECURSIVE splitFrom(_, _, _)
splitFrom(list, merged, i) ==
    IF i > Len(list) THEN [list |-> list, err |-> "none", out |-> <<>>]
    ELSE IF ~SameLength(merged, list[i])
    THEN [list |-> list, err |-> "ValueError: compare", out |-> <<>>]
    ELSE splitFrom([list EXCEPT ![i] = SubsetCells(merged, BarcodeMask(merged, list[i]))],
                   merged, i + 1)

\* lines 284-285, with what lines 274-282 printed
splitMerged(list, kept) == [splitFrom(list, kept.a, 1) EXCEPT !.out = kept.out]

\* lines 272-285
takeGeneUnion(list, remove_missing) ==
    IF \E i \in DOMAIN list : ~list[i].named
    THEN [list |-> list, err |-> "KeyError", out |-> <<>>]
    ELSE splitMerged(list, IF remove_missing THEN dropMissingGenes(MergeSparseDataAll(list))
                           ELSE [a |-> MergeSparseDataAll(list), out |-> <<>>])

\* r after what was printed before it
After(printed, r) == [r EXCEPT !.out = printed \o r.out]

\* lines 294-295: the genes are filtered too unless the datasets were merged
removeMissingGenes(r1, take_gene_union) ==
    IF r1.err # "none" \/ take_gene_union THEN r1
    ELSE After(r1.out, removeMissingObs(r1.list, "raw_data", FALSE))

\* lines 291-295
removeMissingAtCreate(list, take_gene_union) ==
    removeMissingGenes(removeMissingObs(list, "raw_data", TRUE), take_gene_union)

\* Liger(adata_list): the object keeps the list it is given
Liger(list) == list

\* lines 300-303: the rows of one dataset's frame: cell, nUMI, nGene, dataset
CellFrame(a) ==
    [c \in 1..NCells(a) |->
        [barcode |-> a.barcodes[c],
         nUMI |-> ColSums(a)[c],
         nGene |-> Cardinality({g \in 1..NGenes(a) : a.X[g][c] # 0}),
         dataset |-> a.sample_name]]

\* line 304: DataFrame.append returns a new frame and leaves the frame it is called
\* on as it was; the result is dropped
AppendFrame(frame, temp) == frame

\* lines 299-304: the loop over the datasets from index i on.  Line 300 looks up
\* var['barcodes'], and line 302 calls X.toarray(), which a dense X (make_sparse
\* False) does not have
RECURSIVE cellDataFrom(_, _, _)
cellDataFrom(list, i, frame) ==
    IF i > Len(list) THEN [frame |-> frame, err |-> "none"]
    ELSE IF ~list[i].named THEN [frame |-> frame, err |-> "KeyError"]
    ELSE IF ~list[i].sparse THEN [frame |-> frame, err |-> "AttributeError"]
    ELSE cellDataFrom(list, i + 1, AppendFrame(frame, CellFrame(list[i])))

\* the result of a createLiger that raised: no object is returned
Raised(r) ==
    [list |-> r.list, err |-> r.err, out |-> r.out, created |-> FALSE, cell_data |-> <<>>]

\* lines 297-306
createCellData(s3, frame) ==
    IF frame.err # "none" THEN Raised([s3 EXCEPT !.err = frame.err])
    ELSE [list |-> s3.list, err |-> "none", out |-> s3.out, created |-> TRUE,
          cell_data |-> frame.frame]

createFiltered(s3) ==
    IF s3.err # "none" THEN Raised(s3) ELSE createCellData(s3, cellDataFrom(s3.list, 1, <<>>))

\* lines 287-295
createObject(s2, take_gene_union, remove_missing) ==
    IF s2.err # "none" THEN Raised(s2)
    ELSE createFiltered(IF remove_missing
                        THEN After(s2.out, removeMissingAtCreate(Liger(s2.list), take_gene_union))
                        ELSE [s2 EXCEPT !.list = Liger(s2.list)])

\* lines 271-285
createMerged(s1, make_sparse, take_gene_union, remove_missing) ==
    IF s1.err # "none" THEN Raised([s1 EXCEPT !.out = <<>>])
    ELSE createObject(IF take_gene_union /\ make_sparse
                      THEN takeGeneUnion(s1.list, remove_missing)
                      ELSE [list |-> s1.list, err |-> "none", out |-> <<>>],
                      take_gene_union, remove_missing)

\* the whole of createLiger: the list as the call leaves it, the exception raised
\* (created is FALSE then), what was printed, and cell_data
createLiger(list, make_sparse, take_gene_union, remove_missing) ==
    createMerged(IF make_sparse THEN makeSparseFrom(list, 1)
                 ELSE [list |-> list, err |-> "none", out |-> <<>>],
                 make_sparse, take_gene_union, remove_missing)

(***************************************************************************)
(* normalize (lines 309-333).                                              *)
(***************************************************************************)
\* line 331: X / np.sum(X, axis=0), every count divided by the total of its cell
normData(a) ==
    [g \in 1..NGenes(a) |-> [c \in 1..NCells(a) |-> Quot(a.X[g][c], ColSums(a)[c])]]

SetLayer(a, k, M) ==
    [a EXCEPT !.layers = [x \in DOMAIN a.layers \cup {k} |-> IF x = k THEN M ELSE a.layers[x]]]

\* normalize without its filter: line 328 left out
normalizeUnfiltered(list) == [list |-> list, err |-> "none", out |-> <<>>]

\* line 328: the cells without counts are cut before anything is divided
normalizeFilter(list) == removeMissingObs(list, "raw_data", TRUE)

\* lines 330-331
normalizeAll(r) ==
    IF r.err # "none" THEN r
    ELSE [r EXCEPT !.list = [i \in DOMAIN r.list |->
                                SetLayer(r.list[i], "norm_data", normData(r.list[i]))]]

normalize(list) == normalizeAll(normalizeFilter(list))

(***************************************************************************)
(* selectGenes (lines 336-478).  The statistics are floating point in the  *)
(* code; here they are fixed point, FP units to 1.                         *)
(***************************************************************************)
\* str.upper() on the gene identifiers of the model
Upper(g) ==
    CASE g = "a" -> "A" [] g = "b" -> "B" [] g = "c" -> "C" [] g = "d" -> "D"
      [] g = "e" -> "E" [] g = "f" -> "F" [] OTHER -> g

\* line 415
capitalizeGenes(a) == [a EXCEPT !.gene_name = [i \in DOMAIN a.gene_name |-> Upper(a.gene_name[i])]]

\* the largest r with r * r <= n
RECURSIVE ISqrtIn(_, _, _)
ISqrtIn(n, lo, hi) ==
    IF lo >= hi THEN lo
    ELSE LET mid == (lo + hi + 1) \div 2
         IN  IF mid * mid <= n THEN ISqrtIn(n, mid, hi) ELSE ISqrtIn(n, lo, mid - 1)

ISqrt(n) == ISqrtIn(n, 0, IF n < 46340 THEN n ELSE 46340)

\* a finite non-negative norm_data value in fixed point
Fx(v) == (v.n * FP) \div v.d

\* norm.ppf(1 - alpha_thresh / shape[0] / 2) in thousandths, for 1 to 30 genes and for
\* alpha_thresh = 0.99 (the default, alpha_pct = 99) and 0.05 (alpha_pct = 5)
ZMilli(alpha_pct, ng) ==
    IF alpha_pct = 99
    THEN <<13, 682, 974, 1156, 1287, 1388, 1470, 1539, 1598, 1650,
          1695, 1736, 1773, 1807, 1838, 1867, 1894, 1919, 1942, 1964,
          1985, 2005, 2023, 2041, 2058, 2074, 2089, 2104, 2118, 2132>>[ng]
    ELSE <<1960, 2241, 2394, 2498, 2576, 2638, 2690, 2734, 2773, 2807,
          2838, 2865, 2891, 2914, 2935, 2955, 2974, 2991, 3008, 3023,
          3038, 3052, 3065, 3078, 3090, 3102, 3113, 3124, 3134, 3144>>[ng]

\* 10 ^ var_thresh in thousandths, var_thresh given in tenths (1 is the default 0.1)
Pow10Milli(tenths) ==
    CASE tenths = 0 -> 1000 [] tenths = 1 -> 1259 [] tenths = 2 -> 1585
      [] tenths = 3 -> 1995 [] tenths = 5 -> 3162 [] tenths = 10 -> 10000
      [] tenths = 15 -> 31623

Thresholds == {0, 1, 5, 15}

\* line 417 and line 423: nolan_constant = mean(1 / trx_per_cell)
nolanConstant(a) ==
    SumSeq([c \in 1..NCells(a) |-> (FP * 1) \div ColSums(a)[c]]) \div NCells(a)

\* line 419: the mean of gene g's normalized values over the cells
geneExprMean(a, g) ==
    SumSeq([c \in 1..NCells(a) |-> Fx(a.layers["norm_data"][g][c])]) \div NCells(a)

\* line 421: np.var, the mean squared deviation from the mean
geneExprVar(a, g) ==
    LET m == geneExprMean(a, g)
        dev(c) == Fx(a.layers["norm_data"][g][c]) - m
    IN  SumSeq([c \in 1..NCells(a) |-> dev(c) * dev(c)]) \div (NCells(a) * FP)

\* line 426: genemeanupper
geneMeanUpper(a, g, alpha_pct) ==
    LET m == geneExprMean(a, g)
        q == ((m * nolanConstant(a)) \div FP) \div NCells(a)
    IN  m + (ZMilli(alpha_pct, NGenes(a)) * ISqrt(q * FP)) \div 1000

\* the comparison of line 445 turned round: log10(gene_expr_var) < basegenelower + var_thresh
belowThreshold(a, g, var_thresh) ==
    geneExprVar(a, g) * 1000
      < ((geneExprMean(a, g) * nolanConstant(a)) \div FP) * Pow10Milli(var_thresh)

\* line 445, second conjunct: log10(gene_expr_var) > basegenelower + var_thresh, with
\* basegenelower = log10(gene_expr_mean * nolan_constant) (line 428); log10(0) is -Inf,
\* which is greater than nothing
aboveThreshold(a, g, var_thresh) ==
    /\ geneExprVar(a, g) > 0
    /\ geneExprVar(a, g) * 1000
         > ((geneExprMean(a, g) * nolanConstant(a)) \div FP) * Pow10Milli(var_thresh)

\* line 445, first conjunct: gene_expr_var / nolan_constant > genemeanupper
aboveMeanUpper(a, g, alpha_pct) ==
    /\ nolanConstant(a) > 0
    /\ (geneExprVar(a, g) * FP) \div nolanConstant(a) > geneMeanUpper(a, g, alpha_pct)

\* line 445: select_gene.  A cell without counts makes nolan_constant infinite and a
\* non-finite normalized value makes the gene's mean NaN: every comparison is False then
selectGene(a, var_thresh, alpha_pct) ==
    [g \in 1..NGenes(a) |->
        /\ \A c \in 1..NCells(a) : ColSums(a)[c] # 0 /\ IsFinite(a.layers["norm_data"][g][c])
        /\ aboveMeanUpper(a, g, alpha_pct)
        /\ aboveThreshold(a, g, var_thresh)]

\* line 446: genes_new, as a set
genesNew(a, var_thresh, alpha_pct) == Range(Pick(a.gene_name, selectGene(a, var_thresh, alpha_pct)))

\* genes_use overwritten by genes_new instead of combined with it
combineOverwrite(genes_use, genes_new, combine) == genes_new

\* lines 461-467: np.union1d, or np.intersect1d after genes_use is replaced by
\* genes_new whenever it is empty
combineGenes(genes_use, genes_new, combine) ==
    IF combine = "union" THEN genes_use \cup genes_new
    ELSE IF combine = "intersect"
    THEN (IF genes_use = {} THEN genes_new ELSE genes_use) \cap genes_new
    ELSE genes_use

\* lines 417-424 and 436-440: the exception the loop body raises on dataset a, if any.
\* The mean of a sparse matrix over no cells, and alpha_thresh / shape[0] with no
\* genes, divide by zero; minimize() is called with the unknown keyword agrs
selectError(a, num_genes) ==
    IF "norm_data" \notin DOMAIN a.layers THEN "KeyError"
    ELSE IF NCells(a) = 0 \/ NGenes(a) = 0 THEN "ZeroDivisionError"
    ELSE IF num_genes # {} THEN "TypeError"
    ELSE "none"

\* lines 413-467: the loop over the datasets of datasets_use not yet visited, in
\* increasing order (lines 409-410 sort datasets_use)
RECURSIVE selectFrom(_, _, _, _, _, _, _, _)
selectStep(list, i, todo, genes_use, var_thresh, alpha_pct, num_genes, combine, capitalize) ==
    IF selectError(list[i], num_genes) # "none"
    THEN [list |-> list, err |-> selectError(list[i], num_genes), genes_use |-> genes_use]
    ELSE selectFrom(list, todo \ {i},
                    combineGenes(genes_use, genesNew(list[i], var_thresh, alpha_pct), combine),
                    var_thresh, alpha_pct, num_genes, combine, capitalize)

Min(S) == CHOOSE x \in S : \A y \in S : x <= y

selectFrom(list, todo, genes_use, var_thresh, alpha_pct, num_genes, combine, capitalize) ==
    IF todo = {} THEN [list |-> list, err |-> "none", genes_use |-> genes_use]
    ELSE selectStep(IF capitalize THEN [list EXCEPT ![Min(todo)] = capitalizeGenes(list[Min(todo)])]
                    ELSE list,
                    Min(todo), todo, genes_use, var_thresh, alpha_pct, num_genes, combine,
                    capitalize)

\* the loop of lines 470-471 stopping after the first dataset
keepSharedWithFirst(genes_use, list, keep_unique) ==
    IF keep_unique THEN genes_use ELSE {g \in genes_use : g \in Range(list[1].gene_name)}

\* lines 469-471: unless keep_unique, only the genes every dataset measures stay
keepShared(genes_use, list, keep_unique) ==
    IF keep_unique THEN genes_use
    ELSE {g \in genes_use : \A i \in DOMAIN list : g \in Range(list[i].gene_name)}

\* lines 473-476
selectStore(list, genes) ==
    [list |-> list, err |-> "none", set |-> TRUE, var_genes |-> genes,
     warn |-> IF genes = {} THEN <<"No genes were selected">> ELSE <<>>]

selectCombined(r, keep_unique) ==
    IF r.err # "none"
    THEN [list |-> r.list, err |-> r.err, set |-> FALSE, var_genes |-> {}, warn |-> <<>>]
    ELSE selectStore(r.list, keepShared(r.genes_use, r.list, keep_unique))

\* the whole of selectGenes
selectGenes(list, var_thresh, alpha_pct, num_genes, datasets_use, combine, keep_unique, capitalize) ==
    selectCombined(selectFrom(list, datasets_use \cap DOMAIN list, {}, var_thresh, alpha_pct,
                              num_genes, combine, capitalize),
                   keep_unique)

(***************************************************************************)
(* scaleNotCenter (lines 482-520).                                         *)
(***************************************************************************)
RECURSIVE LCMSeq(_)
LCMSeq(s) ==
    IF s = <<>> THEN 1
    ELSE LET r == LCMSeq(Tail(s)) IN (Head(s) \div GCD(Head(s), r)) * r

\* line 515: the normalized values of one gene divided by
\* sqrt(sum(square(values)) / (shape[1] - 1)).  With D a common denominator of the
\* row and w[c] = value[c] * D, the square of entry c is w[c]^2 * (nc - 1) / sum(w^2).
\* One cell: the sum is divided by 0, the root is Inf (NaN when the sum is 0 too)
scaleRow(row) ==
    LET nc == Len(row)
        D == LCMSeq([c \in 1..nc |-> IF row[c].d = 0 THEN 1 ELSE row[c].d])
        w == [c \in 1..nc |-> row[c].n * (D \div row[c].d)]
        ss == SumSeq([c \in 1..nc |-> w[c] * w[c]])
    IN  [c \in 1..nc |->
            IF \E k \in 1..nc : row[k].d = 0 THEN NaN
            ELSE IF ss = 0 THEN NaN
            ELSE IF nc = 1 THEN Zero
            ELSE Quot(w[c] * w[c] * (nc - 1), ss)]

scaleData(a) == [g \in 1..NGenes(a) |-> scaleRow(a.layers["norm_data"][g])]

\* lines 513-515: the scale_data layer is set when X is sparse
scaleCut(cut) ==
    IF ~cut.sparse THEN [a |-> cut, err |-> "none"]
    ELSE IF "norm_data" \notin DOMAIN cut.layers THEN [a |-> cut, err |-> "KeyError"]
    ELSE [a |-> SetLayer(cut, "scale_data", scaleData(cut)), err |-> "none"]

\* lines 510-511: the dataset is cut to the genes of var_genes
scaleStep(a, genes) ==
    scaleCut(SubsetGenes(a, [g \in 1..NGenes(a) |-> a.gene_name[g] \in genes]))

RECURSIVE scaleFrom(_, _, _)
scaleNext(list, genes, i, r) ==
    IF r.err # "none" THEN [list |-> [list EXCEPT ![i] = r.a], err |-> r.err, out |-> <<>>]
    ELSE scaleFrom([list EXCEPT ![i] = r.a], genes, i + 1)

scaleFrom(list, genes, i) ==
    IF i > Len(list) THEN [list |-> list, err |-> "none", out |-> <<>>]
    ELSE scaleNext(list, genes, i, scaleStep(list[i], genes))

\* lines 518-519
scaleFilter(r, remove_missing) ==
    IF r.err = "none" /\ remove_missing THEN removeMissingObs(r.list, "scale_data", FALSE)
    ELSE r

scaleNotCenter(list, genes, remove_missing) ==
    scaleFilter(scaleFrom(list, genes, 1), remove_missing)

(***************************************************************************)
(* The calls a user of the module makes, in the order of the pipeline:     *)
(* createLiger, normalize, selectGenes, scaleNotCenter, and                *)
(* removeMissingObs at any time once the object exists.  A call that       *)
(* raises leaves the object as the exception found it.                     *)
(***************************************************************************)
\* a call c returned or raised r; the caller moves on to to when it returned
Called(c, r, to) ==
    /\ adata_list' = r.list
    /\ err' = r.err
    /\ pc' = IF r.err = "none" THEN to ELSE IF pc = "start" THEN "failed" ELSE pc
    /\ before' = adata_list
    /\ call' = c

\* createLiger returns the object or raises and returns nothing
Created(c, r) ==
    /\ Called(c, r, "created")
    /\ out' = r.out
    /\ cell_data' = r.cell_data
    /\ var_genes' = {}
    /\ warn' = <<>>

\* removeMissingObs, normalize and scaleNotCenter print and change the datasets only
Filtered(c, r, to) ==
    /\ Called(c, r, to)
    /\ out' = r.out
    /\ warn' = <<>>
    /\ UNCHANGED <<var_genes, cell_data>>

\* selectGenes stores var_genes when it returns
Selected(c, r) ==
    /\ Called(c, r, "selected")
    /\ var_genes' = IF r.set THEN r.var_genes ELSE var_genes
    /\ warn' = r.warn
    /\ out' = <<>>
    /\ UNCHANGED cell_data

CreateLiger(make_sparse, take_gene_union, remove_missing) ==
    /\ pc = "start"
    /\ Created([op |-> "createLiger", make_sparse |-> make_sparse,
                take_gene_union |-> take_gene_union, remove_missing |-> remove_missing],
               createLiger(adata_list, make_sparse, take_gene_union, remove_missing))

RemoveMissingObs(slot_use, use_cols) ==
    /\ pc \in {"created", "normalized", "selected", "scaled"}
    /\ Filtered([op |-> "removeMissingObs", slot_use |-> slot_use, use_cols |-> use_cols],
                removeMissingObs(adata_list, slot_use, use_cols), pc)

Normalize ==
    /\ pc = "created"
    /\ Filtered([op |-> "normalize"], normalize(adata_list), "normalized")

SelectGenes(var_thresh, alpha_pct, num_genes, datasets_use, combine, keep_unique, capitalize) ==
    /\ pc = "normalized"
    /\ Selected([op |-> "selectGenes", var_thresh |-> var_thresh, alpha_pct |-> alpha_pct,
                 num_genes |-> num_genes, datasets_use |-> datasets_use, combine |-> combine,
                 keep_unique |-> keep_unique, capitalize |-> capitalize],
                selectGenes(adata_list, var_thresh, alpha_pct, num_genes, datasets_use,
                            combine, keep_unique, capitalize))

ScaleNotCenter(remove_missing) ==
    /\ pc = "selected"
    /\ Filtered([op |-> "scaleNotCenter", remove_missing |-> remove_missing],
                scaleNotCenter(adata_list, var_genes, remove_missing), "scaled")

(***************************************************************************)
(* The inputs: lists of AnnData objects as read10X hands them over.        *)
(***************************************************************************)
AnnData(name, genes, cells, X, sparse, named) ==
    [sample_name |-> name, sparse |-> sparse, named |-> named, gene_name |-> genes,
     barcodes |-> cells, X |-> X, layers |-> <<>>]

GenePool == <<"a", "b", "c", "d", "e", "f">>

SampleName(j) == "s" \o ToString(j)

\* barcodes that differ between the cells of a dataset and between datasets
CellNames(j, nc) == [k \in 1..nc |-> "s" \o ToString(j) \o "c" \o ToString(k)]

\* the datasets for position j of a list with ng * nc <= budget matrix entries: the
\* genes are the window of the gene pool that starts after offset, every count is
\* in 0..MaxCount
EntryFamily(j, budget, offsets) ==
    UNION {{AnnData(SampleName(j), SubSeq(GenePool, o + 1, o + shape[1]), CellNames(j, shape[2]),
                    X, TRUE, TRUE) :
               X \in [1..shape[1] -> [1..shape[2] -> 0..MaxCount]], o \in offsets} :
           shape \in {sh \in (1..budget) \X (1..budget) : sh[1] * sh[2] <= budget}}

\* the lists of at most n datasets for the positions from j on that hold at most
\* budget matrix entries together
RECURSIVE EntryLists(_, _, _, _)
EntryLists(j, budget, n, offsets) ==
    IF n = 0 \/ budget = 0 THEN {<<>>}
    ELSE {<<>>} \cup
         UNION {{<<a>> \o rest :
                    rest \in EntryLists(j + 1, budget - NGenes(a) * NCells(a), n - 1, offsets)} :
                a \in EntryFamily(j, budget, offsets)}

\* a dataset with WideCells cells of which only the first has a count, and one with
\* WideCells genes of which only the first has a count
WideFamily(j) ==
    {AnnData(SampleName(j), <<"a">>, CellNames(j, WideCells),
             <<[c \in 1..WideCells |-> IF c = 1 THEN 1 ELSE 0]>>, TRUE, TRUE),
     AnnData(SampleName(j), [g \in 1..WideCells |-> "g" \o ToString(g)], CellNames(j, 1),
             [g \in 1..WideCells |-> <<IF g = 1 THEN 1 ELSE 0>>], TRUE, TRUE)}

\* the datasets for position j with two genes and two cells of SelCount counts each:
\* the first cell has them all on the second gene, the second cell has k of them on
\* the first gene.  Neighbouring positions share one gene of their two
SelFamily(j) ==
    {AnnData(SampleName(j), SubSeq(GenePool, 2 - (j % 2), 3 - (j % 2)), CellNames(j, 2),
             <<<<0, k>>, <<SelCount, SelCount - k>>>>, TRUE, TRUE) :
        k \in 0..SelCount}

\* the datasets for position j whose barcodes come from one pool shared by all
\* positions, dense or sparse, with or without names; every count is 1
DupFamily(j) ==
    UNION {{AnnData(SampleName(j), SubSeq(GenePool, 1, ng), cells,
                    [g \in 1..ng |-> [c \in DOMAIN cells |-> 1]], sparse, named) :
               cells \in [1..nc -> {"c1", "c2"}], sparse \in BOOLEAN, named \in BOOLEAN,
               ng \in 1..MaxGenes} :
           nc \in 1..MaxCells}

\* every list of 1..n datasets, the j-th drawn from Family(j)
RECURSIVE ListsOf(_, _)
ListsOf(Family(_), n) ==
    IF n = 0 THEN {<<>>}
    ELSE LET shorter == ListsOf(Family, n - 1)
         IN  shorter \cup {Append(l, a) : l \in {x \in shorter : Len(x) = n - 1}, a \in Family(n)}

\* the inputs of Spec, SpecCreate and SpecSelect
BaseLists(n) ==
    (EntryLists(1, MaxEntries, n, {0}) \cup ListsOf(WideFamily, 1) \cup ListsOf(SelFamily, 1))
      \ {<<>>}

CreateLists(n) == (EntryLists(1, MaxEntries, n, {0, 1}) \cup ListsOf(DupFamily, n)) \ {<<>>}

SelectLists(n) == ListsOf(SelFamily, n) \ {<<>>}

InitWith(lists) ==
    /\ adata_list \in lists
    /\ pc = "start"
    /\ var_genes = {}
    /\ cell_data = <<>>
    /\ err = "none"
    /\ out = <<>>
    /\ warn = <<>>
    /\ call = [op |-> "none"]
    /\ before = <<>>

(***************************************************************************)
(* Spec: the whole pipeline and removeMissingObs on small inputs.          *)
(***************************************************************************)
Init == InitWith(BaseLists(MaxDatasets))

Next ==
    \/ \E ms \in BOOLEAN, tgu \in BOOLEAN, rm \in BOOLEAN : CreateLiger(ms, tgu, rm)
    \/ \E slot_use \in {"raw_data", "scale_data"}, use_cols \in BOOLEAN :
           RemoveMissingObs(slot_use, use_cols)
    \/ RemoveMissingObs("norm_data", TRUE)
    \/ Normalize
    \/ \E combine \in {"union", "intersect"} :
           SelectGenes(1, 99, {}, DOMAIN adata_list, combine, FALSE, FALSE)
    \/ \E rm \in BOOLEAN : ScaleNotCenter(rm)

Spec == Init /\ [][Next]_vars

(***************************************************************************)
(* SpecCreate: createLiger on inputs with different gene vocabularies,     *)
(* repeated barcodes, dense matrices and missing names.                    *)
(***************************************************************************)
InitCreate == InitWith(CreateLists(MaxDatasets))

NextCreate ==
    \E ms \in BOOLEAN, tgu \in BOOLEAN, rm \in BOOLEAN : CreateLiger(ms, tgu, rm)

SpecCreate == InitCreate /\ [][NextCreate]_vars

(***************************************************************************)
(* SpecSelect: the pipeline on inputs in which genes are selected.         *)
(***************************************************************************)
\* the values of datasets_use tried: all the datasets, or all but one
DatasetsUse(list) == {u \in SUBSET DOMAIN list : Cardinality(u) >= Len(list) - 1}

InitSelect == InitWith(SelectLists(SelDatasets))

NextSelect ==
    \/ \E rm \in BOOLEAN : CreateLiger(TRUE, FALSE, rm)
    \/ Normalize
    \/ \E datasets_use \in DatasetsUse(adata_list), combine \in {"union", "intersect"},
          keep_unique \in BOOLEAN, capitalize \in BOOLEAN :
           SelectGenes(1, 99, {}, datasets_use, combine, keep_unique, capitalize)
    \/ \E t \in Thresholds, alpha_pct \in {99, 5} :
           SelectGenes(t, alpha_pct, {}, DOMAIN adata_list, "union", FALSE, FALSE)
    \/ \E n \in 1..2 : SelectGenes(1, 99, {n}, DOMAIN adata_list, "union", FALSE, FALSE)
    \/ \E rm \in BOOLEAN : ScaleNotCenter(rm)

SpecSelect == InitSelect /\ [][NextSelect]_vars

(***************************************************************************)
(* Properties of createLiger, stated for SpecCreate.                       *)
(***************************************************************************)
AllBarcodes(list) == Concat([i \in DOMAIN list |-> list[i].barcodes])

\* some cell identifier occurs twice in the collection
Duplicated(list) == Len(AllBarcodes(list)) # Cardinality(Range(AllBarcodes(list)))

\* named datasets, no identifier twice, and a count in every cell
WellFormed(list) ==
    /\ ~Duplicated(list)
    /\ \A i \in DOMAIN list :
          /\ list[i].named
          /\ Len(list[i].gene_name) = Cardinality(Range(list[i].gene_name))
          /\ \A c \in 1..NCells(list[i]) : ColSums(list[i])[c] # 0

UnionGenes(list) == UNION {Range(list[i].gene_name) : i \in DOMAIN list}

GeneTotal(list, g) == SumSeq([i \in DOMAIN list |-> SumSeq(GeneRow(list[i], g))])

\* the gene axis after the merge: the union, less the genes without any count when
\* remove_missing
ExpectedGenes(list, remove_missing) ==
    {g \in UnionGenes(list) : ~remove_missing \/ GeneTotal(list, g) > 0}

\* dataset a holds the cells of its original orig, the genes of axis, and the counts
\* of orig, 0 for the genes orig did not have
FilledFrom(a, orig, axis) ==
    /\ a.barcodes = orig.barcodes
    /\ Range(a.gene_name) = axis
    /\ Len(a.X) = Len(a.gene_name)
    /\ \A g \in DOMAIN a.gene_name : a.X[g] = GeneRow(orig, a.gene_name[g])

\* C1: after createLiger with take_gene_union on well-formed input, every dataset has
\* its own original cells, all datasets have the union of the input genes as gene axis
\* (less the genes without counts when remove_missing), and every value is the
\* dataset's original count, or 0 where the dataset did not have the gene
C1_GeneUnionKeepsCounts ==
    (call.op = "createLiger" /\ call.make_sparse /\ call.take_gene_union /\ WellFormed(before))
        => /\ pc = "created"
           /\ Len(adata_list) = Len(before)
           /\ \A i \in DOMAIN adata_list :
                 FilledFrom(adata_list[i], before[i],
                            ExpectedGenes(before, call.remove_missing))

\* C2: createLiger raises, and returns no object, whenever a cell identifier occurs
\* more than once in the input collection, in one dataset or in two, sparse or dense
C2_DuplicateCellRejected ==
    (call.op = "createLiger" /\ call.make_sparse /\ Duplicated(before))
        => (pc = "failed" /\ err # "none")

(***************************************************************************)
(* Properties of removeMissingObs and normalize, stated for Spec.         *)
(***************************************************************************)
SupportedCall ==
    /\ call.op = "removeMissingObs"
    /\ call.slot_use \in {"raw_data", "scale_data"}
    /\ \A i \in DOMAIN before :
          call.slot_use = "scale_data" => "scale_data" \in DOMAIN before[i].layers

\* the second of two calls in succession changes no dataset, and when the first
\* returned it finds nothing to remove and to report
SecondCallIdle(second) ==
    /\ second.list = adata_list
    /\ err = "none" => (second.err = "none" /\ second.out = <<>>)

\* C3: removeMissingObs is idempotent: called again with the same arguments right
\* after a call, it leaves every dataset (matrix, layers, identifiers) as the first
\* call left it and removes nothing
C3_RemoveMissingIdempotent ==
    SupportedCall => SecondCallIdle(removeMissingObs(adata_list, call.slot_use, call.use_cols))

\* a call of removeMissingObs that returned after it removed something
C3_Witness == SupportedCall /\ err = "none" /\ adata_list # before

\* every layer has the shape of X, and the identifier vectors the matching lengths
Congruent(a) ==
    /\ Len(a.X) = NGenes(a)
    /\ \A g \in DOMAIN a.X : Len(a.X[g]) = NCells(a)
    /\ \A k \in DOMAIN a.layers :
          /\ Len(a.layers[k]) = NGenes(a)
          /\ \A g \in DOMAIN a.layers[k] : Len(a.layers[k][g]) = NCells(a)

\* dataset a without the entries of the target axis whose sum in the slot is zero
WithoutMissing(a, slot_use, use_cols) ==
    IF use_cols THEN SubsetCells(a, [c \in 1..NCells(a) |-> ~MissingMask(a, slot_use, TRUE)[c]])
    ELSE SubsetGenes(a, [g \in 1..NGenes(a) |-> ~MissingMask(a, slot_use, FALSE)[g]])

\* C4: after removeMissingObs every dataset is its original without exactly the
\* entries of the target axis whose sum in the chosen layer is zero, cut from X, from
\* every layer and from the identifier vector together, so that all shapes agree
C4_ExactlyZeroSumRemoved ==
    SupportedCall =>
        \A i \in DOMAIN adata_list :
            /\ adata_list[i] = WithoutMissing(before[i], call.slot_use, call.use_cols)
            /\ Congruent(adata_list[i])

AllFinite(M) == \A g \in DOMAIN M : \A c \in DOMAIN M[g] : IsFinite(M[g][c])

\* C5: normalize never divides by a zero cell total: when it returns, every cell of
\* every dataset has a non-zero raw total, and a norm_data layer, which only normalize
\* sets, never holds a non-finite value
C5_NoZeroTotalDivided ==
    /\ \A i \in DOMAIN adata_list :
          "norm_data" \in DOMAIN adata_list[i].layers => AllFinite(adata_list[i].layers["norm_data"])
    /\ (call.op = "normalize" /\ err = "none") =>
          \A i \in DOMAIN adata_list :
              /\ "norm_data" \in DOMAIN adata_list[i].layers
              /\ \A c \in 1..NCells(adata_list[i]) : ColSums(adata_list[i])[c] # 0

\* normalize returned after it removed a cell without counts
C5_Witness ==
    /\ call.op = "normalize"
    /\ err = "none"
    /\ \E i \in DOMAIN adata_list :
          /\ NCells(adata_list[i]) < NCells(before[i])
          /\ NCells(adata_list[i]) > 0

(***************************************************************************)
(* Properties of selectGenes, stated for SpecSelect.                       *)
(***************************************************************************)
\* selectGenes returned
Returned == call.op = "selectGenes" /\ err = "none"

\* the genes selected in the dataset at index i by the last call
SelectedIn(i) == genesNew(adata_list[i], call.var_thresh, call.alpha_pct)

\* the datasets the last call chose
Chosen == call.datasets_use \cap DOMAIN adata_list

\* the genes every dataset of the object measures
SharedGenes == {g \in UnionGenes(adata_list) : \A i \in DOMAIN adata_list : g \in Range(adata_list[i].gene_name)}

\* the last call was selectGenes with combine = 'union' and the default arguments
\* otherwise, on two datasets whose selected sets are disjoint
UnionOfDisjoint ==
    /\ Returned
    /\ call.combine = "union" /\ call.var_thresh = 1 /\ call.alpha_pct = 99
    /\ call.num_genes = {} /\ ~call.keep_unique /\ ~call.capitalize
    /\ Len(adata_list) = 2 /\ call.datasets_use = {1, 2}
    /\ SelectedIn(1) \cap SelectedIn(2) = {}

\* C6, as stated: selectGenes with combine = 'union' on two datasets with disjoint
\* selected sets stores exactly the union of the two sets in var_genes
C6_UnionExact == UnionOfDisjoint => var_genes = SelectedIn(1) \cup SelectedIn(2)

\* C6, amended: var_genes is the union of the two selected sets restricted to the
\* genes that every dataset measures
C6_UnionOfShared ==
    UnionOfDisjoint => var_genes = (SelectedIn(1) \cup SelectedIn(2)) \cap SharedGenes

\* both datasets select a gene, and one of the selected genes is lost
C6_Witness ==
    /\ UnionOfDisjoint
    /\ SelectedIn(1) # {} /\ SelectedIn(2) # {}
    /\ var_genes # {}
    /\ var_genes # SelectedIn(1) \cup SelectedIn(2)

\* C7: selectGenes with combine = 'intersect' on two or more chosen datasets: every
\* gene of var_genes was selected in every chosen dataset, and when two chosen
\* datasets have disjoint selected sets var_genes is empty and the warning is emitted
C7_IntersectOfAll ==
    (Returned /\ call.combine = "intersect" /\ Cardinality(Chosen) >= 2)
        => /\ \A g \in var_genes : \A i \in Chosen : g \in SelectedIn(i)
           /\ (\E i, j \in Chosen : SelectedIn(i) \cap SelectedIn(j) = {})
                 => (var_genes = {} /\ warn # <<>>)

\* selectGenes can run on the dataset
Selectable(a) == selectError(a, {}) = "none"

\* the genes selected in dataset a shrink, or stay, as the threshold grows
Monotone(a, alpha_pct) ==
    \A t1 \in Thresholds, t2 \in Thresholds :
        t1 <= t2 => genesNew(a, t2, alpha_pct) \subseteq genesNew(a, t1, alpha_pct)

\* C8: for fixed data and alpha_thresh, the genes selected in a dataset at a
\* threshold are among those selected at any lower threshold: for every normalized
\* dataset selectGenes is about to see, and for the threshold of a call that returned
C8_MonotoneInThreshold ==
    /\ pc = "normalized" =>
          \A i \in DOMAIN adata_list, alpha_pct \in {99, 5} :
              Selectable(adata_list[i]) => Monotone(adata_list[i], alpha_pct)
    /\ (Returned /\ call.num_genes = {}) =>
          \A i \in Chosen, t \in Thresholds :
              t >= call.var_thresh =>
                  genesNew(adata_list[i], t, call.alpha_pct) \subseteq SelectedIn(i)

\* selectGenes returned, and a higher threshold would have selected fewer genes in
\* one of the datasets
C8_Witness ==
    /\ Returned
    /\ \E i \in Chosen : \E t \in Thresholds :
          /\ t > call.var_thresh
          /\ genesNew(adata_list[i], t, call.alpha_pct) # SelectedIn(i)
          /\ genesNew(adata_list[i], t, call.alpha_pct) \subseteq SelectedIn(i)

\* the combined set of the last call, before the keep_unique step
Combined ==
    selectFrom(before, Chosen, {}, call.var_thresh, call.alpha_pct, call.num_genes,
               call.combine, call.capitalize).genes_use

\* C9: selectGenes with keep_unique = False: every gene of var_genes is a gene of
\* every dataset of the object, chosen or not, and every gene of the combined set
\* that all datasets measure is kept, also when only one dataset selected it
C9_SharedGenesKept ==
    (Returned /\ ~call.keep_unique)
        => /\ \A g \in var_genes : \A i \in DOMAIN adata_list : g \in Range(adata_list[i].gene_name)
           /\ Combined \cap SharedGenes \subseteq var_genes
           /\ call.combine = "union" =>
                 \A i \in Chosen : SelectedIn(i) \cap SharedGenes \subseteq var_genes

\* a gene is kept that only one of several datasets selected
C9_Witness ==
    /\ Returned /\ ~call.keep_unique
    /\ Len(adata_list) >= 2
    /\ \E g \in var_genes : Cardinality({i \in DOMAIN adata_list : g \in SelectedIn(i)}) = 1

\* C10: selectGenes called with num_genes returns without a fatal error: var_genes
\* is set and the object is handed back
C10_NumGenesReturns ==
    (call.op = "selectGenes" /\ call.num_genes # {}) => (err = "none" /\ pc = "selected")

(***************************************************************************)
(* Properties of scaleNotCenter, stated for SpecSelect.                    *)
(***************************************************************************)
\* every entry of M is a finite number that is not negative
AllFiniteNonNegative(M) ==
    \A g \in DOMAIN M : \A c \in DOMAIN M[g] : IsFinite(M[g][c]) /\ M[g][c].s >= 0

\* C11: after scaleNotCenter every entry of every dataset's scale_data layer is a
\* defined, finite, non-negative number, also for a selected gene whose normalized
\* values are all zero in the dataset
C11_ScaleDataFinite ==
    call.op = "scaleNotCenter" =>
        \A i \in DOMAIN adata_list :
            "scale_data" \in DOMAIN adata_list[i].layers
                => AllFiniteNonNegative(adata_list[i].layers["scale_data"])

\* dataset a cut to the selected genes and scaled, before anything is removed
ScaledOnly(a) == scaleStep(a, var_genes).a

\* the cells of a with a scaled value that is not zero
ExpressedCells(a) ==
    [c \in 1..NCells(a) |->
        ~NumSumIsZero([g \in 1..NGenes(a) |-> a.layers["scale_data"][g][c]])]

\* scaleNotCenter was called with remove_missing on datasets it can scale, each of
\* which has a selected gene
ScaledWithFilter ==
    /\ call.op = "scaleNotCenter" /\ call.remove_missing
    /\ \A i \in DOMAIN before :
          /\ before[i].sparse /\ "norm_data" \in DOMAIN before[i].layers
          /\ NGenes(ScaledOnly(before[i])) > 0

\* C12: scaleNotCenter with remove_missing removes cells, not genes: it returns, and
\* every dataset is its scaled original without exactly the cells whose scale_data
\* values are zero for all selected genes, its gene axis the selected genes it has
C12_CellsNotGenesRemoved ==
    ScaledWithFilter =>
        /\ err = "none"
        /\ \A i \in DOMAIN adata_list :
              adata_list[i] = SubsetCells(ScaledOnly(before[i]), ExpressedCells(ScaledOnly(before[i])))

(***************************************************************************)
(* cell_data of createLiger, stated for SpecCreate.                        *)
(***************************************************************************)
\* C13: after createLiger returns, cell_data has exactly one row for every cell of
\* every dataset of the object, with the cell's nUMI, nGene and dataset name, and no
\* row for a cell that was removed
C13_CellDataRowPerCell ==
    (call.op = "createLiger" /\ pc = "created")
        => cell_data = Concat([i \in DOMAIN adata_list |-> CellFrame(adata_list[i])])

(***************************************************************************)
(* The report of removeMissingObs, stated for Spec.                        *)
(***************************************************************************)
\* the identifiers of the entries of a that the call is to remove
MissingIds(a, slot_use, use_cols) ==
    Pick(IF use_cols THEN a.barcodes ELSE a.gene_name, MissingMask(a, slot_use, use_cols))

\* the datasets in which the last call found between 1 and ReportLimit - 1 zero-sum entries
FewMissing ==
    {i \in DOMAIN before :
        Len(MissingIds(before[i], call.slot_use, call.use_cols)) \in 1..(ReportLimit - 1)}

\* C14: when removeMissingObs finds between 1 and 24 zero-sum entries in a dataset, the
\* call returns, the entries are removed, and the identifiers reported for the dataset
\* are those of exactly the removed entries, of the axis they were removed from
C14_ReportNeverFails ==
    (SupportedCall /\ FewMissing # {})
        => /\ err = "none"
           /\ \A i \in FewMissing :
                 /\ adata_list[i] = WithoutMissing(before[i], call.slot_use, call.use_cols)
                 /\ IdsLine(MissingIds(before[i], call.slot_use, call.use_cols)) \in Range(out)

(***************************************************************************)
(* capitalize of selectGenes, stated for SpecSelect.                       *)
(***************************************************************************)
IsUpper(g) == Upper(g) = g

\* C15: selectGenes with capitalize on some chosen dataset: every gene identifier that takes part in a set
\* operation of the call, the vocabularies of the datasets not in datasets_use
\* included, is uppercase when it is used, and var_genes holds uppercase identifiers only
C15_UppercaseBeforeSetOps ==
    (Returned /\ call.capitalize /\ Chosen # {})
        => /\ \A g \in var_genes : IsUpper(g)
           /\ \A i \in DOMAIN adata_list : \A g \in Range(adata_list[i].gene_name) : IsUpper(g)

====
